---- MODULE Spec2Model ----
(***************************************************************************)
(* Model of the model-file download route                                  *)
(*   src/src/pages/api/download/models/[modelVersionId].ts                 *)
(* The request handler downloadModel is a sequence of checks, reads and    *)
(* writes; each awaited call is one step of the handler.  The exported     *)
(* helper getDownloadFilename is a pure function over strings; strings are *)
(* TLA+ strings, read character by character with SubSeq.                  *)
(* Two further parts of the repository follow at the end of the module:    *)
(* the concurrent calls of addPostTag (TagSpec) and the infinite scroll of *)
(* the ImagesInfinite component (ScrollSpec).                              *)
(***************************************************************************)
EXTENDS Integers, Sequences, FiniteSets, TLC

VARIABLES
    pc,                 \* position of the handler (or of the direct call)
    env,                \* process configuration and stored data
    req,                \* the incoming request
    session,            \* result of getServerAuthSession
    queryResults,       \* result of schema.safeParse(req.query)
    modelVersion,       \* result of dbRead.modelVersion.findFirst
    file,               \* the selected file
    fileName,           \* result of getDownloadFilename
    userActivity,       \* rows written by dbWrite.userActivity.create
    events,             \* tracker / playfab events sent
    urlRequests,        \* calls made to getDownloadUrl
    res,                \* the response
    \* the tag store and the addPostTag calls in progress
    \*   src/src/components/ImageGeneration/GenerationForm/BaseModelProvider.tsx
    tags,               \* rows of the tag table
    tagsOnPosts,        \* rows of the tag-post link table
    calls,              \* the addPostTag calls: arguments, position, lookup result
    \* the ImagesInfinite component
    \*   src/src/components/Image/Infinite/ImagesInfinite.tsx
    inView,             \* useInView: the sentinel intersects the viewport
    fetchStatus,        \* the query: loading, idle, fetchingNext or refetching
    hasNextPage,        \* the query reports a further page
    debounceTimer,      \* the debounced fetchNextPage has a call pending
    fetches             \* what held at each invocation of fetchNextPage

tagVars == <<tags, tagsOnPosts, calls>>

scrollVars == <<inView, fetchStatus, hasNextPage, debounceTimer, fetches>>

vars == <<pc, env, req, session, queryResults, modelVersion, file, fileName,
          userActivity, events, urlRequests, res, tagVars, scrollVars>>

(***************************************************************************)
(* Strings                                                                 *)
(***************************************************************************)
UpperChars == "ABCDEFGHIJKLMNOPQRSTUVWXYZ"
LowerChars == "abcdefghijklmnopqrstuvwxyz"
DigitChars == "0123456789"

Char(s, i) == SubSeq(s, i, i)

CharSet(chars) == {Char(chars, i) : i \in 1..Len(chars)}

UpperSet == CharSet(UpperChars)

LowerOf ==
    [c \in UpperSet |->
        Char(LowerChars, CHOOSE i \in 1..Len(UpperChars) : Char(UpperChars, i) = c)]

LowerChar(c) == IF c \in UpperSet THEN LowerOf[c] ELSE c

RECURSIVE toLowerCase(_)
toLowerCase(s) ==
    IF s = "" THEN ""
    ELSE LowerChar(Char(s, 1)) \o toLowerCase(SubSeq(s, 2, Len(s)))

\* pat occurs in s at position i
MatchAt(s, i, pat) ==
    /\ i >= 1
    /\ i + Len(pat) - 1 <= Len(s)
    /\ SubSeq(s, i, i + Len(pat) - 1) = pat

\* pat occurs in s at position i, letter case ignored (the regex flag i)
MatchAtInsensitive(s, i, pat) ==
    /\ i >= 1
    /\ i + Len(pat) - 1 <= Len(s)
    /\ toLowerCase(SubSeq(s, i, i + Len(pat) - 1)) = toLowerCase(pat)

includes(s, pat) == \E i \in 1..(Len(s) + 1) : MatchAt(s, i, pat)

\* s.split('.').pop(): what follows the last '.', the whole of s without one
RECURSIVE splitPop(_)
splitPop(s) ==
    IF \E i \in 1..Len(s) : Char(s, i) = "."
    THEN splitPop(SubSeq(s, (CHOOSE i \in 1..Len(s) : Char(s, i) = ".") + 1, Len(s)))
    ELSE s

\* length of the match of /_?inpainting/i at position i of s
inpaintingMatch(s, i) ==
    IF MatchAt(s, i, "_") /\ MatchAtInsensitive(s, i + 1, "inpainting") THEN 11
    ELSE IF MatchAtInsensitive(s, i, "inpainting") THEN 10
    ELSE 0

\* versionName.replace(/_?inpainting/i, ''): without the flag g, the leftmost
\* match is removed
removeInpainting(s) ==
    IF \E i \in 1..Len(s) : inpaintingMatch(s, i) > 0
    THEN LET i == CHOOSE k \in 1..Len(s) :
                      /\ inpaintingMatch(s, k) > 0
                      /\ \A j \in 1..(k - 1) : inpaintingMatch(s, j) = 0
         IN  SubSeq(s, 1, i - 1) \o SubSeq(s, i + inpaintingMatch(s, i), Len(s))
    ELSE s

\* length of the match of /_?instruct|-?pix2pix/i at position i of s
pix2pixMatch(s, i) ==
    IF MatchAt(s, i, "_") /\ MatchAtInsensitive(s, i + 1, "instruct") THEN 9
    ELSE IF MatchAtInsensitive(s, i, "instruct") THEN 8
    ELSE IF MatchAt(s, i, "-") /\ MatchAtInsensitive(s, i + 1, "pix2pix") THEN 8
    ELSE IF MatchAtInsensitive(s, i, "pix2pix") THEN 7
    ELSE 0

\* versionName.replace(/_?instruct|-?pix2pix/gi, ''): every match is removed
RECURSIVE removePix2pix(_)
removePix2pix(s) ==
    IF s = "" THEN ""
    ELSE IF pix2pixMatch(s, 1) > 0
         THEN removePix2pix(SubSeq(s, pix2pixMatch(s, 1) + 1, Len(s)))
         ELSE Char(s, 1) \o removePix2pix(SubSeq(s, 2, Len(s)))

(***************************************************************************)
(* ~/utils/string-helpers: filenamize and replaceInsensitive.  The route   *)
(* imports them; their text is not part of the reviewed files, so they     *)
(* follow the specification: the sanitizer strips the characters that are  *)
(* not safe in a file name, "My Model v2" becomes "My_Model_v2", and a     *)
(* name of unsafe characters only becomes empty.                           *)
(***************************************************************************)
SafeChars == CharSet(UpperChars \o LowerChars \o DigitChars \o "_-.")

RECURSIVE trim(_)
trim(s) ==
    IF s = "" THEN ""
    ELSE IF Char(s, 1) = " " THEN trim(SubSeq(s, 2, Len(s)))
    ELSE IF Char(s, Len(s)) = " " THEN trim(SubSeq(s, 1, Len(s) - 1))
    ELSE s

RECURSIVE sanitize(_)
sanitize(s) ==
    IF s = "" THEN ""
    ELSE (IF Char(s, 1) = " " THEN "_"
          ELSE IF Char(s, 1) \in SafeChars THEN Char(s, 1)
          ELSE "") \o sanitize(SubSeq(s, 2, Len(s)))

filenamize(value) == sanitize(trim(value))

\* every occurrence of search in value, letter case ignored, becomes replace
RECURSIVE replaceInsensitive(_, _, _)
replaceInsensitive(value, search, replace) ==
    IF value = "" THEN (IF search = "" THEN replace ELSE "")
    ELSE IF search # "" /\ MatchAtInsensitive(value, 1, search)
         THEN replace \o
              replaceInsensitive(SubSeq(value, Len(search) + 1, Len(value)), search, replace)
         ELSE (IF search = "" THEN replace ELSE "") \o Char(value, 1) \o
              replaceInsensitive(SubSeq(value, 2, Len(value)), search, replace)

(***************************************************************************)
(* Enumerations                                                            *)
(***************************************************************************)
\* prisma ModelType, as far as the route tells its members apart
ModelType == {"Checkpoint", "TextualInversion", "LORA", "LoCon", "Controlnet"}

\* constants.modelFileTypes
modelFileTypes ==
    {"Model", "Text Encoder", "Pruned Model", "Negative", "Training Data", "VAE",
     "Config", "Archive"}

(***************************************************************************)
(* getDownloadFilename                                                     *)
(***************************************************************************)
\* mutant of hasTrainedWord: any trained word counts, not the first
hasAnyTrainedWord(mv) == \E i \in 1..Len(mv.trainedWords) : mv.trainedWords[i] # ""

\* mv.trainedWords[0] is truthy
hasTrainedWord(mv) ==
    /\ Len(mv.trainedWords) > 0
    /\ mv.trainedWords[1] # ""

\* the version name with the m name taken out, sanitized
strippedVersionName(m, mv) ==
    filenamize(replaceInsensitive(mv.name, filenamize(m.name), ""))

\* mutant of shouldKeepFilename: LoCon is forgotten
shouldKeepFilenameLoraOnly(m) ==
    \/ Len(filenamize(m.name)) = 0
    \/ m.type = "LORA"

shouldKeepFilename(m) ==
    \/ Len(filenamize(m.name)) = 0
    \/ m.type = "LORA"
    \/ m.type = "LoCon"

\* mutant of isVaeFile: the VAE exemption is forgotten
isVaeFileNever(f) == FALSE

\* fileType !== 'VAE' guards the renaming of the remaining file types
isVaeFile(f) == f.type = "VAE"

getDownloadFilename(m, mv, f) ==
    LET modelName   == filenamize(m.name)
        versionName == strippedVersionName(m, mv)
        ext         == splitPop(f.name)
        lowerName   == toLowerCase(f.name)
        neg         == IF f.type = "Negative" THEN "-neg" ELSE ""
    IN  IF shouldKeepFilename(m) THEN f.name
        ELSE IF f.type \notin modelFileTypes THEN f.name
        ELSE IF f.type = "Training Data"
             THEN modelName \o "_" \o versionName \o "_trainingData.zip"
        ELSE IF m.type = "TextualInversion"
             THEN IF hasTrainedWord(mv)
                  THEN mv.trainedWords[1] \o neg \o "." \o ext
                  ELSE f.name
        ELSE IF ~isVaeFile(f)
             THEN IF includes(lowerName, "-inpainting")
                  THEN modelName \o "_"
                       \o removeInpainting(versionName)
                       \o "-inpainting" \o "." \o ext
                  ELSE IF includes(lowerName, ".instruct-pix2pix")
                  THEN modelName \o "_" \o removePix2pix(versionName)
                       \o ".instruct-pix2pix" \o "." \o ext
                  ELSE modelName \o "_" \o versionName
                       \o (IF f.type = "Text Encoder" THEN "_txt" ELSE "")
                       \o "." \o ext
        ELSE f.name

(***************************************************************************)
(* The request handler downloadModel: bounds and domains                   *)
(***************************************************************************)
MaxIp == 2      \* client addresses 1..MaxIp
MaxUserId == 3      \* user ids 1..MaxUserId
MaxVersionId == 2      \* model version ids a request may name: 0..MaxVersionId
MaxTimeFrame == 2      \* early access time frames 0..MaxTimeFrame

Undefined  == "undefined"     \* an absent value
Null       == [null |-> TRUE] \* the null of a lookup that found nothing
NoIp       == 0               \* requestIp.getClientIp found no address
NoVae      == 0               \* modelVersion.vaeId is null
NoDeadline == 0               \* getEarlyAccessDeadline gave no deadline
NaN        == -1              \* Number(val) of a value that is no number
CurrentTime == 1              \* new Date()

Ips     == 1..MaxIp
UserIds == 1..MaxUserId

NoSession == [user |-> Null]
Users     == [id : UserIds, isModerator : BOOLEAN, tier : {Undefined, "founder"}]
Sessions  == {NoSession} \cup {[user |-> u] : u \in Users}

hasUser(s) == s.user # Null
userIdOf(s) == IF hasUser(s) THEN s.user.id ELSE 0       \* session?.user?.id
isModOf(s) == hasUser(s) /\ s.user.isModerator           \* session?.user?.isModerator
hasTier(s) == hasUser(s) /\ s.user.tier # Undefined      \* session?.user?.tier

\* the key-value rows 'ip-blacklist' and 'user-blacklist': the last address and
\* the last user are the listed ones
IpBlacklist   == {MaxIp}
UserBlacklist == {MaxUserId}

\* constants.modelFileFormats, modelFileSizes, modelFileFp
modelFileFormats == {"SafeTensor", "PickleTensor", "Other"}
modelFileSizes   == {"full", "pruned"}
modelFileFp      == {"fp16", "fp32"}

\* what a client may send as req.query: every well-formed query, and the
\* malformed ones with one malformed parameter and nothing else optional
RawIds == {"abc", Undefined} \cup {ToString(n) : n \in 0..MaxVersionId}
QueryShapes ==
    [modelVersionId : RawIds,
     type   : {Undefined, "Model", "VAE", "Bogus"},
     format : {Undefined, "SafeTensor"},
     size   : {Undefined},
     fp     : {Undefined, "fp8"}]

\* the stored model version: its id is 1, every other id names nothing
StoredId == 1
OwnerId  == 1
ModelStatus == {"Published", "Draft"}
ModelModifier == {"None", "Archived"}
Models ==
    [id : {1}, name : {"My Model"}, type : {"Checkpoint"}, publishedAt : {0},
     status : ModelStatus, userId : {OwnerId}, mode : ModelModifier, nsfw : {FALSE}]
ModelVersions ==
    [id : {StoredId}, status : ModelStatus, model : Models, name : {"My Model v2"},
     trainedWords : {<<>>}, earlyAccessTimeFrame : 0..MaxTimeFrame, createdAt : {0},
     vaeId : {NoVae, 1}]

\* the files a version or a VAE may hold
StoredFiles ==
    {[id |-> 1, name |-> "weights.safetensors", type |-> "Model"],
     [id |-> 2, name |-> "images.zip", type |-> "Training Data"]}
VaeFile == [id |-> 3, name |-> "vae.pt", type |-> "Model"]

NoRes == [status |-> 0, body |-> "", message |-> "", location |-> ""]

(***************************************************************************)
(* Helpers of the handler                                                  *)
(***************************************************************************)
\* z.preprocess((val) => Number(val), z.number())
Number(val) ==
    IF \E n \in 0..MaxVersionId : ToString(n) = val
    THEN CHOOSE n \in 0..MaxVersionId : ToString(n) = val
    ELSE NaN

optional(val, enum) == val = Undefined \/ val \in enum

\* schema.safeParse(req.query)
safeParse(query) ==
    IF /\ Number(query.modelVersionId) # NaN
       /\ optional(query.type, modelFileTypes)
       /\ optional(query.format, modelFileFormats)
       /\ optional(query.size, modelFileSizes)
       /\ optional(query.fp, modelFileFp)
    THEN [success |-> TRUE,
          data |-> [modelVersionId |-> Number(query.modelVersionId), type |-> query.type,
                    format |-> query.format, size |-> query.size, fp |-> query.fp]]
    ELSE [success |-> FALSE, data |-> Null]

optionalsGiven(query) ==
    Cardinality({k \in {"type", "format", "size", "fp"} : query[k] # Undefined})

Queries ==
    {q \in QueryShapes :
        \/ safeParse(q).success
        \/ optionalsGiven(q) = (IF Number(q.modelVersionId) = NaN THEN 0 ELSE 1)}

Requests ==
    [ip : {NoIp} \cup Ips,
     contentType : {"application/json", "text/html"},
     query : Queries]

isJson(r) == r.contentType = "application/json"

\* function errorResponse(status, message)
errorResponse(status, message) ==
    [status |-> status, body |-> IF isJson(req) THEN "json" ELSE "text",
     message |-> message, location |-> ""]

\* res.status(status).json(...)
jsonResponse(status, message) ==
    [status |-> status, body |-> "json", message |-> message, location |-> ""]

\* res.redirect(url)
redirect(url) == [status |-> 307, body |-> "", message |-> "", location |-> url]

\* mutant of findFirst: the where clause is dropped
findFirstAny(id) == CHOOSE v \in env.modelVersions : TRUE

\* dbRead.modelVersion.findFirst({ where: { id } })
findFirst(id) ==
    IF \E v \in env.modelVersions : v.id = id
    THEN CHOOSE v \in env.modelVersions : v.id = id
    ELSE Null

\* mutants of archived: moderators exempted; the wrong member of ModelModifier
archivedForOthers(mv) == mv.model.mode = "Archived" /\ ~isModOf(session)

archivedTakenDown(mv) == mv.model.mode = "TakenDown"

\* modelVersion.model.mode === ModelModifier.Archived
archived(mv) == mv.model.mode = "Archived"

\* mutant of canDownload: any signed-in user counts as the owner
canDownloadAnyUser(s, mv) ==
    \/ isModOf(s)
    \/ (mv.model.status = "Published" /\ mv.status = "Published")
    \/ userIdOf(s) # 0

canDownload(s, mv) ==
    \/ isModOf(s)
    \/ (mv.model.status = "Published" /\ mv.status = "Published")
    \/ (userIdOf(s) # 0 /\ mv.model.userId = userIdOf(s))

\* mutant of loginRequired: the flag is read the wrong way round
loginRequiredInverted(s) == env.UNAUTHENTICATED_DOWNLOAD /\ userIdOf(s) = 0

\* mutant of notPrivileged: the model's owner is let through
notPrivilegedNorOwner(s) == ~hasTier(s) /\ ~isModOf(s) /\ userIdOf(s) # OwnerId

\* !env.UNAUTHENTICATED_DOWNLOAD && !userId
loginRequired(s) == ~env.UNAUTHENTICATED_DOWNLOAD /\ userIdOf(s) = 0

\* !session?.user?.tier && !session?.user?.isModerator
notPrivileged(s) == ~hasTier(s) /\ ~isModOf(s)

Max(a, b) == IF a >= b THEN a ELSE b

\* ~/server/utils/early-access-helpers
getEarlyAccessDeadline(versionCreatedAt, publishedAt, earlyAccessTimeframe) ==
    IF earlyAccessTimeframe = 0 THEN NoDeadline
    ELSE Max(versionCreatedAt, publishedAt) + earlyAccessTimeframe

inEarlyAccess(mv, now) ==
    LET earlyAccessDeadline ==
            getEarlyAccessDeadline(mv.createdAt, mv.model.publishedAt, mv.earlyAccessTimeFrame)
    IN  earlyAccessDeadline # NoDeadline /\ now < earlyAccessDeadline

\* ~/server/utils/model-helpers: the file chosen among files, null when none qualifies
getPrimaryFile(files) == IF files = {} THEN {Null} ELSE files \cup {Null}

(***************************************************************************)
(* The handler, one action per awaited call or check                       *)
(***************************************************************************)
\* nothing of the tag store or of the image feed takes part in a download
OtherIdle ==
    /\ tags = {}
    /\ tagsOnPosts = {}
    /\ calls = <<>>
    /\ inView = FALSE
    /\ fetchStatus = "idle"
    /\ hasNextPage = FALSE
    /\ debounceTimer = FALSE
    /\ fetches = <<>>

Init ==
    /\ pc = "idle"
    /\ env \in [UNAUTHENTICATED_DOWNLOAD : BOOLEAN,
                ipBlacklist : {IpBlacklist},
                userBlacklist : {UserBlacklist},
                modelVersions : {{v} : v \in ModelVersions},
                now : {CurrentTime}]
    /\ req = Null
    /\ session = Null
    /\ queryResults = Null
    /\ modelVersion = Null
    /\ file = Null
    /\ fileName = ""
    /\ userActivity = <<>>
    /\ events = <<>>
    /\ urlRequests = <<>>
    /\ res = NoRes
    /\ OtherIdle

Respond(r) == res' = r /\ pc' = "done"

\* a request arrives; requestIp.getClientIp(req)
Receive ==
    /\ pc = "idle"
    /\ \E r \in Requests : req' = r
    /\ pc' = "ipBlacklist"
    /\ UNCHANGED <<env, session, queryResults, modelVersion, file, fileName,
                   userActivity, events, urlRequests, res>>
    /\ UNCHANGED <<tagVars, scrollVars>>

\* mutant of CheckIpBlacklist: the IP blacklist is never consulted
CheckIpBlacklistSkipped ==
    /\ pc = "ipBlacklist"
    /\ pc' = "session"
    /\ UNCHANGED <<env, req, session, queryResults, modelVersion, file, fileName,
                   userActivity, events, urlRequests, res>>
    /\ UNCHANGED <<tagVars, scrollVars>>

\* the 'ip-blacklist' row is read and the address looked up in it
CheckIpBlacklist ==
    /\ pc = "ipBlacklist"
    /\ IF req.ip # NoIp /\ req.ip \in env.ipBlacklist
       THEN Respond(errorResponse(403, "Forbidden"))
       ELSE pc' = "session" /\ UNCHANGED res
    /\ UNCHANGED <<env, req, session, queryResults, modelVersion, file, fileName,
                   userActivity, events, urlRequests>>
    /\ UNCHANGED <<tagVars, scrollVars>>

\* getServerAuthSession({ req, res }); with a session user, the 'user-blacklist'
\* row is read and the id looked up in it
GetSession ==
    /\ pc = "session"
    /\ \E s \in Sessions :
           /\ session' = s
           /\ IF hasUser(s) /\ s.user.id \in env.userBlacklist
              THEN Respond(errorResponse(403, "Forbidden"))
              ELSE pc' = "parse" /\ UNCHANGED res
    /\ UNCHANGED <<env, req, queryResults, modelVersion, file, fileName,
                   userActivity, events, urlRequests>>
    /\ UNCHANGED <<tagVars, scrollVars>>

\* schema.safeParse(req.query) and the check of modelVersionId
ParseQuery ==
    /\ pc = "parse"
    /\ queryResults' = safeParse(req.query)
    /\ IF ~queryResults'.success
       THEN Respond(jsonResponse(400, "Invalid id"))
       ELSE IF queryResults'.data.modelVersionId = 0
            THEN Respond(errorResponse(400, "Missing modelVersionId"))
            ELSE pc' = "findFirst" /\ UNCHANGED res
    /\ UNCHANGED <<env, req, session, modelVersion, file, fileName,
                   userActivity, events, urlRequests>>
    /\ UNCHANGED <<tagVars, scrollVars>>

\* dbRead.modelVersion.findFirst
FindModelVersion ==
    /\ pc = "findFirst"
    /\ modelVersion' = findFirst(queryResults.data.modelVersionId)
    /\ IF modelVersion' = Null
       THEN Respond(errorResponse(404, "Model not found"))
       ELSE pc' = "archived" /\ UNCHANGED res
    /\ UNCHANGED <<env, req, session, queryResults, file, fileName,
                   userActivity, events, urlRequests>>
    /\ UNCHANGED <<tagVars, scrollVars>>

\* archived models are not available for download
CheckArchived ==
    /\ pc = "archived"
    /\ IF archived(modelVersion)
       THEN Respond(errorResponse(410, "Model archived, not available for download"))
       ELSE pc' = "canDownload" /\ UNCHANGED res
    /\ UNCHANGED <<env, req, session, queryResults, modelVersion, file, fileName,
                   userActivity, events, urlRequests>>
    /\ UNCHANGED <<tagVars, scrollVars>>

\* non-published models are for moderators and owners
CheckCanDownload ==
    /\ pc = "canDownload"
    /\ IF ~canDownload(session, modelVersion)
       THEN Respond(errorResponse(404, "Model not found"))
       ELSE pc' = "auth" /\ UNCHANGED res
    /\ UNCHANGED <<env, req, session, queryResults, modelVersion, file, fileName,
                   userActivity, events, urlRequests>>
    /\ UNCHANGED <<tagVars, scrollVars>>

\* unauthenticated downloads
CheckAuthenticated ==
    /\ pc = "auth"
    /\ IF loginRequired(session)
       THEN IF isJson(req)
            THEN Respond(errorResponse(401, "Unauthorized"))
            ELSE Respond(redirect("login"))
       ELSE pc' = "earlyAccess" /\ UNCHANGED res
    /\ UNCHANGED <<env, req, session, queryResults, modelVersion, file, fileName,
                   userActivity, events, urlRequests>>
    /\ UNCHANGED <<tagVars, scrollVars>>

\* early access
CheckEarlyAccess ==
    /\ pc = "earlyAccess"
    /\ IF notPrivileged(session) /\ inEarlyAccess(modelVersion, env.now)
       THEN IF isJson(req)
            THEN Respond(jsonResponse(403, "Early Access"))
            ELSE Respond(redirect("join"))
       ELSE pc' = "file" /\ UNCHANGED res
    /\ UNCHANGED <<env, req, session, queryResults, modelVersion, file, fileName,
                   userActivity, events, urlRequests>>
    /\ UNCHANGED <<tagVars, scrollVars>>

\* type VAE: the version's VAE reference and getVaeFiles
SelectVaeFile ==
    /\ pc = "file"
    /\ queryResults.data.type = "VAE"
    /\ IF modelVersion.vaeId = NoVae
       THEN file' = Null /\ Respond(errorResponse(404, "VAE not found"))
       ELSE \E vae \in {<<>>, <<VaeFile>>} :
                IF Len(vae) = 0
                THEN file' = Null /\ Respond(errorResponse(404, "VAE not found"))
                ELSE file' = vae[1] /\ pc' = "track" /\ UNCHANGED res
    /\ UNCHANGED <<env, req, session, queryResults, modelVersion, fileName,
                   userActivity, events, urlRequests>>
    /\ UNCHANGED <<tagVars, scrollVars>>

\* mutant of SelectModelFile: without the `if (!file)` return the handler runs
\* on to file.id, which throws inside the tracking try block
SelectModelFileUnchecked ==
    /\ pc = "file"
    /\ queryResults.data.type # "VAE"
    /\ \E stored \in SUBSET StoredFiles :
           LET type  == queryResults.data.type
               files == {f \in stored : type = Undefined \/ f.type = type}
           IN  \E f \in getPrimaryFile(files) :
                   /\ file' = f
                   /\ IF f = Null
                      THEN Respond(errorResponse(500, "Invalid database operation"))
                      ELSE pc' = "track" /\ UNCHANGED res
    /\ UNCHANGED <<env, req, session, queryResults, modelVersion, fileName,
                   userActivity, events, urlRequests>>
    /\ UNCHANGED <<tagVars, scrollVars>>

\* any other type: dbRead.modelFile.findMany and getPrimaryFile
SelectModelFile ==
    /\ pc = "file"
    /\ queryResults.data.type # "VAE"
    /\ \E stored \in SUBSET StoredFiles :
           LET type  == queryResults.data.type
               files == {f \in stored : type = Undefined \/ f.type = type}
           IN  \E f \in getPrimaryFile(files) :
                   /\ file' = f
                   /\ IF f = Null
                      THEN Respond(errorResponse(404, "Model file not found"))
                      ELSE pc' = "track" /\ UNCHANGED res
    /\ UNCHANGED <<env, req, session, queryResults, modelVersion, fileName,
                   userActivity, events, urlRequests>>
    /\ UNCHANGED <<tagVars, scrollVars>>

\* mutant of CreateUserActivity: the failed write is swallowed and the handler
\* carries on
CreateUserActivityIgnoringFailure ==
    /\ pc = "track"
    /\ \/ userActivity' = Append(userActivity,
                [userId |-> userIdOf(session), activity |-> "ModelDownload",
                 modelVersionId |-> modelVersion.id, fileId |-> file.id,
                 ip |-> IF userIdOf(session) = 0 THEN req.ip ELSE NoIp])
       \/ UNCHANGED userActivity
    /\ pc' = "events"
    /\ UNCHANGED res
    /\ UNCHANGED <<env, req, session, queryResults, modelVersion, file, fileName,
                   events, urlRequests>>
    /\ UNCHANGED <<tagVars, scrollVars>>

\* mutant of CreateUserActivity: the row is written before the outcome of the
\* write is looked at, and written again on failure
CreateUserActivityTwice ==
    /\ pc = "track"
    /\ LET row == [userId |-> userIdOf(session), activity |-> "ModelDownload",
                   modelVersionId |-> modelVersion.id, fileId |-> file.id,
                   ip |-> IF userIdOf(session) = 0 THEN req.ip ELSE NoIp]
       IN  \/ /\ userActivity' = Append(userActivity, row)
              /\ pc' = "events"
              /\ UNCHANGED res
           \/ /\ userActivity' = Append(Append(userActivity, row), row)
              /\ pc' = "events"
              /\ UNCHANGED res
           \/ /\ Respond(errorResponse(500, "Invalid database operation"))
              /\ UNCHANGED userActivity
    /\ UNCHANGED <<env, req, session, queryResults, modelVersion, file, fileName,
                   events, urlRequests>>
    /\ UNCHANGED <<tagVars, scrollVars>>

\* dbWrite.userActivity.create; a failed write throws
CreateUserActivity ==
    /\ pc = "track"
    /\ \/ /\ userActivity' = Append(userActivity,
                [userId |-> userIdOf(session), activity |-> "ModelDownload",
                 modelVersionId |-> modelVersion.id, fileId |-> file.id,
                 ip |-> IF userIdOf(session) = 0 THEN req.ip ELSE NoIp])
          /\ pc' = "events"
          /\ UNCHANGED res
       \/ /\ Respond(errorResponse(500, "Invalid database operation"))
          /\ UNCHANGED userActivity
    /\ UNCHANGED <<env, req, session, queryResults, modelVersion, file, fileName,
                   events, urlRequests>>
    /\ UNCHANGED <<tagVars, scrollVars>>

\* tracker.modelVersionEvent, then playfab.trackEvent for a user; either may throw
TrackEvents ==
    /\ pc = "events"
    /\ \/ /\ events' = events \o <<"Download">>
                       \o (IF userIdOf(session) # 0 THEN <<"user_download_model">> ELSE <<>>)
          /\ pc' = "url"
          /\ UNCHANGED res
       \/ /\ Respond(errorResponse(500, "Invalid database operation"))
          /\ UNCHANGED events
       \/ /\ userIdOf(session) # 0
          /\ events' = Append(events, "Download")
          /\ Respond(errorResponse(500, "Invalid database operation"))
    /\ UNCHANGED <<env, req, session, queryResults, modelVersion, file, fileName,
                   userActivity, urlRequests>>
    /\ UNCHANGED <<tagVars, scrollVars>>

\* getDownloadFilename, getDownloadUrl and the redirect; getDownloadUrl may throw
GetDownloadUrl ==
    /\ pc = "url"
    /\ fileName' = getDownloadFilename(modelVersion.model, modelVersion, file)
    /\ urlRequests' = Append(urlRequests, [file |-> file.id, fileName |-> fileName'])
    /\ \/ Respond(redirect("delivery"))
       \/ Respond(errorResponse(500, "Error downloading file"))
    /\ UNCHANGED <<env, req, session, queryResults, modelVersion, file,
                   userActivity, events>>
    /\ UNCHANGED <<tagVars, scrollVars>>

Next ==
    \/ Receive
    \/ CheckIpBlacklist
    \/ GetSession
    \/ ParseQuery
    \/ FindModelVersion
    \/ CheckArchived
    \/ CheckCanDownload
    \/ CheckAuthenticated
    \/ CheckEarlyAccess
    \/ SelectVaeFile
    \/ SelectModelFile
    \/ CreateUserActivity
    \/ TrackEvents
    \/ GetDownloadUrl

Spec == Init /\ [][Next]_vars

(***************************************************************************)
(* getDownloadFilename called directly, as a unit test calls the exported  *)
(* function: the arguments are drawn from bounded sets.                    *)
(***************************************************************************)
MaxNameLen == 2        \* generated model names have 1..MaxNameLen characters

NameChars == {"M", "m", " ", "!"}

RECURSIVE StringsOfLen(_)
StringsOfLen(n) ==
    IF n = 0 THEN {""}
    ELSE {s \o c : s \in StringsOfLen(n - 1), c \in NameChars}

ModelNames ==
    {"My Model", "MyModel"} \cup UNION {StringsOfLen(n) : n \in 1..MaxNameLen}

VersionNames == {"v2", "My Model v2", "mymodel v2", "M-inpainting", "v1_instruct-pix2pix"}

FileNames ==
    {"weights.safetensors", "sd-Inpainting.ckpt", "e.instruct-pix2pix.pt", "README"}

FileTypes == modelFileTypes \cup {"Unknown"}

TrainedWords == {<<>>, <<"foo">>, <<"", "bar">>}

CallModels   == [name : ModelNames, type : ModelType]
CallVersions == [name : VersionNames, trainedWords : TrainedWords, model : CallModels]
CallFiles    == [name : FileNames, type : FileTypes]

CallInit ==
    /\ pc = "call"
    /\ modelVersion \in CallVersions
    /\ file \in CallFiles
    /\ fileName = ""
    /\ env = Null
    /\ req = Null
    /\ session = Null
    /\ queryResults = Null
    /\ userActivity = <<>>
    /\ events = <<>>
    /\ urlRequests = <<>>
    /\ res = NoRes
    /\ OtherIdle

\* getDownloadFilename({ model, modelVersion, file })
Call ==
    /\ pc = "call"
    /\ fileName' = getDownloadFilename(modelVersion.model, modelVersion, file)
    /\ pc' = "returned"
    /\ UNCHANGED <<env, req, session, queryResults, modelVersion, file,
                   userActivity, events, urlRequests, res>>
    /\ UNCHANGED <<tagVars, scrollVars>>

CallNext == Call

CallSpec == CallInit /\ [][CallNext]_vars

(***************************************************************************)
(* What the properties speak of                                            *)
(***************************************************************************)
Done == pc = "done"

\* the stored model versions the request's modelVersionId names
Targets ==
    IF req = Null THEN {}
    ELSE {v \in env.modelVersions : v.id = Number(req.query.modelVersionId)}

TargetArchived == \E v \in Targets : v.model.mode = "Archived"

TargetInEarlyAccess == \E v \in Targets : inEarlyAccess(v, env.now)

IpListed == req # Null /\ req.ip # NoIp /\ req.ip \in env.ipBlacklist

NoUser == session = Null \/ session.user = Null

UserListed == ~NoUser /\ session.user.id \in env.userBlacklist

QueryValid == req # Null /\ safeParse(req.query).success

Privileged == ~NoUser /\ (session.user.tier # Undefined \/ session.user.isModerator)

Delivered == res.location = "delivery"

ErrorStatuses == {400, 401, 403, 404, 410, 500}

(***************************************************************************)
(* Properties of the handler, checked under Spec                           *)
(***************************************************************************)
\* C1 as stated: a request for a model version whose model is Archived always
\* ends with 410, whoever sends it (a blacklisted user or address included)
\* and whatever the other query parameters are.
C1_ArchivedAlways410 == (Done /\ TargetArchived) => res.status = 410

\* C1 as amended: a request for a model version whose model is Archived ends
\* with 410 whatever the authentication state (no session, user, owner,
\* moderator), provided the address and the user are not blacklisted and the
\* query parameters are well-formed.
C1_ArchivedGives410 ==
    (Done /\ TargetArchived /\ ~IpListed /\ ~UserListed /\ QueryValid)
        => res = errorResponse(410, "Model archived, not available for download")

C1_Witness ==
    /\ Done
    /\ TargetArchived
    /\ ~NoUser
    /\ session.user.isModerator
    /\ res.status = 410

\* C2 as stated: a request whose modelVersionId names no stored model version
\* always ends with 404, for every requester and every form of the id.
C2_UnrecognizedAlways404 == (Done /\ Targets = {}) => res.status = 404

\* C2 as amended: a request whose modelVersionId is a number other than 0 that
\* names no stored model version ends with 404 'Model not found', provided the
\* address and the user are not blacklisted and the query is well-formed.
C2_UnrecognizedGives404 ==
    (/\ Done
     /\ Targets = {}
     /\ ~IpListed
     /\ ~UserListed
     /\ QueryValid
     /\ Number(req.query.modelVersionId) # 0)
        => (res = errorResponse(404, "Model not found") /\ modelVersion = Null)

C2_Witness ==
    /\ Done
    /\ Targets = {}
    /\ Number(req.query.modelVersionId) = MaxVersionId
    /\ res.status = 404
    /\ modelVersion = Null

\* C3: a request for an archived model never reaches the activity-log write,
\* the tracking calls, the delivery-URL fetch or the redirect to a delivery URL.
C3_ArchivedNeverDelivered ==
    TargetArchived =>
        /\ userActivity = <<>>
        /\ events = <<>>
        /\ urlRequests = <<>>
        /\ ~Delivered
        /\ pc \notin {"file", "track", "events", "url"}

C3_Witness ==
    /\ Done
    /\ TargetArchived
    /\ ~NoUser
    /\ session.user.id = OwnerId
    /\ session.user.tier # Undefined
    /\ \A v \in Targets : v.status = "Published" /\ v.model.status = "Published"
    /\ res.status = 410
    /\ userActivity = <<>>

\* C4: with UNAUTHENTICATED_DOWNLOAD off, a request without a user never ends
\* in a delivery redirect: it ends with 401 (JSON client) or the login redirect,
\* unless an earlier check rejected it; with the flag on, no request is sent
\* to the login page or answered 401.
C4_UnauthenticatedGate ==
    Done =>
        /\ (~env.UNAUTHENTICATED_DOWNLOAD /\ NoUser) =>
               /\ ~Delivered
               /\ \/ res.status \in {400, 403, 404, 410}
                  \/ isJson(req) /\ res = errorResponse(401, "Unauthorized")
                  \/ ~isJson(req) /\ res = redirect("login")
        /\ env.UNAUTHENTICATED_DOWNLOAD =>
               (res.status # 401 /\ res.location # "login")

C4_Witness ==
    /\ Done
    /\ ~env.UNAUTHENTICATED_DOWNLOAD
    /\ session # Null
    /\ NoUser
    /\ res.location = "login"

\* with the flag on a request without a user does reach the delivery redirect
C4_OpenDownloadReached ==
    /\ Done
    /\ env.UNAUTHENTICATED_DOWNLOAD
    /\ session # Null
    /\ NoUser
    /\ Delivered

\* C9 as stated: every error response (400, 401, 403, 404, 410, 500) has a
\* JSON body when the request's content-type is application/json and a
\* plain-text body otherwise.
C9_ErrorBodyFollowsContentType ==
    (Done /\ res.status \in ErrorStatuses)
        => res.body = (IF isJson(req) THEN "json" ELSE "text")

\* C10 as stated: while the version is in early access, every requester whose
\* session shows no tier and no moderator gets 403 'Early Access' (JSON client) or the join redirect
\* and no activity record is written.
C10_UnprivilegedAlwaysEarlyAccess ==
    (Done /\ TargetInEarlyAccess /\ session # Null /\ ~Privileged)
        => /\ IF isJson(req) THEN res = jsonResponse(403, "Early Access")
                             ELSE res = redirect("join")
           /\ userActivity = <<>>

\* the checks made before the early access check let the request through
PassesEarlierChecks ==
    /\ ~IpListed
    /\ ~UserListed
    /\ QueryValid
    /\ ~TargetArchived
    /\ \/ \A v \in Targets : v.status = "Published" /\ v.model.status = "Published"
       \/ ~NoUser /\ \A v \in Targets : v.model.userId = session.user.id
       \/ ~NoUser /\ session.user.isModerator
    /\ (env.UNAUTHENTICATED_DOWNLOAD \/ ~NoUser)

\* C10 as amended: while the version is in early access, only requesters with
\* a tier and moderators reach the delivery redirect; for every other
\* requester, the owner included, no activity record is written and no
\* delivery URL requested, and the requester that passes the earlier checks
\* (blacklists, query validation, archive, permission, authentication) gets
\* 403 'Early Access' (JSON client) or the join redirect.
C10_EarlyAccessGate ==
    (TargetInEarlyAccess /\ ~Privileged) =>
        /\ userActivity = <<>>
        /\ urlRequests = <<>>
        /\ ~Delivered
        /\ (Done /\ PassesEarlierChecks) =>
               IF isJson(req) THEN res = jsonResponse(403, "Early Access")
                              ELSE res = redirect("join")

C10_Witness ==
    /\ Done
    /\ TargetInEarlyAccess
    /\ ~NoUser
    /\ session.user.id = OwnerId
    /\ ~Privileged
    /\ res = jsonResponse(403, "Early Access")

\* a privileged requester does reach the delivery redirect during early access
C10_PrivilegedReached == Done /\ TargetInEarlyAccess /\ Privileged /\ Delivered

TargetUnpublished ==
    \E v \in Targets : v.status # "Published" \/ v.model.status # "Published"

Moderator == ~NoUser /\ session.user.isModerator

Owner == ~NoUser /\ \E v \in Targets : v.model.userId = session.user.id

\* C11: a request ends in a delivery redirect only if the requester is a
\* moderator, or the model and the version are both Published, or the
\* requester owns the model; a request for an unpublished model or version by
\* anyone else ends with an error response (404 'Model not found' once the
\* blacklist, validation and archive checks are passed), and no file is looked
\* up and no activity row written for it.
C11_PermissionGate ==
    /\ Delivered => (Moderator \/ Owner \/ (Targets # {} /\ ~TargetUnpublished))
    /\ (TargetUnpublished /\ session # Null /\ ~Moderator /\ ~Owner) =>
           /\ file = Null
           /\ userActivity = <<>>
           /\ urlRequests = <<>>
           /\ pc \notin {"auth", "earlyAccess", "file", "track", "events", "url"}
           /\ Done => /\ res.status \in ErrorStatuses
                      /\ res.location = ""
                      /\ (~IpListed /\ ~UserListed /\ QueryValid /\ ~TargetArchived)
                             => res = errorResponse(404, "Model not found")

C11_Witness ==
    /\ Done
    /\ TargetUnpublished
    /\ ~NoUser
    /\ session.user.tier # Undefined
    /\ ~Moderator
    /\ ~Owner
    /\ res.status = 404
    /\ modelVersion # Null

\* the owner of an unpublished model does reach the delivery redirect
C11_OwnerReached == Delivered /\ TargetUnpublished /\ Owner /\ ~Moderator

\* C12: when the file selection step ends without a file (the selector
\* returns null for the files left by the type filter, or the type is VAE and
\* the version has no VAE reference or the VAE has no files), that step
\* answers 404 and ends the request, with no activity row written and no
\* delivery URL requested; the later steps only run with a file.
C12_NoFileGives404 ==
    [][ /\ (pc = "file" /\ file' = Null) =>
               /\ pc' = "done"
               /\ res'.status = 404
               /\ res'.location = ""
               /\ userActivity' = <<>>
               /\ events' = <<>>
               /\ urlRequests' = <<>>
        /\ (pc = "file" /\ queryResults.data.type = "VAE"
                /\ modelVersion.vaeId = NoVae) => file' = Null
        /\ (pc' \in {"track", "events", "url"}) => file' # Null
        /\ (userActivity' # <<>> \/ urlRequests' # <<>>) => file' # Null ]_vars

C12_Witness ==
    /\ Done
    /\ file = Null
    /\ res = errorResponse(404, "Model file not found")
    /\ queryResults.data.type # Undefined
    /\ userActivity = <<>>
    /\ urlRequests = <<>>

\* the VAE branch reaches its own 404 for a version without a VAE reference
C12_VaeMissingReached ==
    /\ Done
    /\ modelVersion # Null
    /\ modelVersion.vaeId = NoVae
    /\ res = errorResponse(404, "VAE not found")

\* C13: a failure of the infrastructure ends in a generic 500 and never in a
\* delivery redirect.  A request that selected a file ends delivered or with
\* 500; when the activity write failed (no row) or a tracking call after it
\* failed (message 'Invalid database operation') no delivery URL is requested;
\* when the delivery URL was requested and not delivered the answer is 500
\* 'Error downloading file'; a delivery follows one written row, the tracked
\* event and one URL request; neither the write nor the URL request is
\* repeated.
C13_FailureGives500 ==
    /\ Len(userActivity) <= 1
    /\ Len(urlRequests) <= 1
    /\ (Done /\ file # Null) => (Delivered \/ (res.status = 500 /\ res.location = ""))
    /\ (Done /\ file # Null /\ userActivity = <<>>) =>
           /\ res = errorResponse(500, "Invalid database operation")
           /\ events = <<>>
           /\ urlRequests = <<>>
    /\ (Done /\ file # Null /\ userActivity # <<>> /\ urlRequests = <<>>) =>
           res = errorResponse(500, "Invalid database operation")
    /\ (Done /\ urlRequests # <<>> /\ ~Delivered) =>
           res = errorResponse(500, "Error downloading file")
    /\ (res.status = 500) => res.location = ""
    /\ Delivered =>
           /\ Len(userActivity) = 1
           /\ Len(events) >= 1
           /\ events[1] = "Download"
           /\ Len(urlRequests) = 1

\* a tracking call fails after the activity row was written
C13_Witness ==
    /\ Done
    /\ file # Null
    /\ Len(userActivity) = 1
    /\ events = <<"Download">>
    /\ urlRequests = <<>>
    /\ res = errorResponse(500, "Invalid database operation")

C13_WriteFailureReached ==
    /\ Done
    /\ file # Null
    /\ userActivity = <<>>
    /\ res.status = 500

C13_UrlFailureReached ==
    /\ Done
    /\ Len(urlRequests) = 1
    /\ res = errorResponse(500, "Error downloading file")

\* C15: the activity row is written at most once per request, and only after
\* the blacklist, validation, existence, archive, permission, authentication
\* and early-access checks are passed and a file is selected; a request
\* answered with 400, 401, 403, 404 or 410 or with a redirect to the login or
\* join page leaves the activity log as it was; a delivery redirect comes
\* after exactly one activity row, written for the same request.
C15_ActivityWrittenOnce ==
    /\ Len(userActivity) <= 1
    /\ userActivity # <<>> =>
           /\ ~IpListed
           /\ ~UserListed
           /\ session # Null
           /\ QueryValid
           /\ Targets # {}
           /\ ~TargetArchived
           /\ Moderator \/ Owner \/ ~TargetUnpublished
           /\ ~NoUser \/ env.UNAUTHENTICATED_DOWNLOAD
           /\ (~TargetInEarlyAccess \/ Privileged)
           /\ file # Null
           /\ pc \in {"events", "url", "done"}
    /\ (Done /\ (res.status \in {400, 401, 403, 404, 410}
                \/ res.location \in {"login", "join"})) =>
           userActivity = <<>>
    /\ Delivered =>
           /\ Len(userActivity) = 1
           /\ userActivity[1].modelVersionId = queryResults.data.modelVersionId
           /\ userActivity[1].fileId = file.id
           /\ userActivity[1].userId = (IF NoUser THEN 0 ELSE session.user.id)
           /\ userActivity[1].ip = (IF NoUser THEN req.ip ELSE NoIp)

\* an anonymous open download is delivered after one row that carries the IP
C15_Witness ==
    /\ Delivered
    /\ NoUser
    /\ Len(userActivity) = 1
    /\ userActivity[1].ip = req.ip
    /\ req.ip # NoIp

\* C16: the blacklist checks come first: a request from a blacklisted IP, or
\* from a session user whose id is on the user blacklist, ends with 403
\* 'Forbidden', before the query is validated and before any model lookup,
\* whatever the query, the target and the session would have led to.
C16_BlacklistFirst ==
    /\ IpListed =>
           /\ pc \in {"idle", "ipBlacklist", "done"}
           /\ session = Null
    /\ (IpListed \/ UserListed) =>
           /\ queryResults = Null
           /\ modelVersion = Null
           /\ file = Null
           /\ userActivity = <<>>
           /\ urlRequests = <<>>
           /\ Done => res = errorResponse(403, "Forbidden")

\* a blacklisted IP asks for an archived target with a malformed query
C16_Witness ==
    /\ Done
    /\ IpListed
    /\ ~QueryValid
    /\ res = errorResponse(403, "Forbidden")

\* a blacklisted user asks for an archived target
C16_UserListedReached ==
    /\ Done
    /\ UserListed
    /\ ~IpListed
    /\ TargetArchived
    /\ res = errorResponse(403, "Forbidden")

(***************************************************************************)
(* Properties of getDownloadFilename, checked under CallSpec               *)
(***************************************************************************)
Returned == pc = "returned"

\* C5: for a model of type LORA or LoCon the result is the file's own name,
\* whatever the model name, version name, trained words and file type.
C5_LoraKeepsFileName ==
    (Returned /\ modelVersion.model.type \in {"LORA", "LoCon"})
        => fileName = file.name

\* a LoCon call that any other model type would have renamed
C5_Witness ==
    /\ Returned
    /\ modelVersion.model.type = "LoCon"
    /\ modelVersion.model.name = "My Model"
    /\ file.type = "Training Data"
    /\ fileName = file.name

\* C6 as stated: for a TextualInversion model a Negative file is named
\* '<first trained word>-neg.<ext>' when the version has a trained word, and
\* keeps its name when the version has none.
C6_NegativeNamedAfterTrainedWord ==
    (Returned /\ modelVersion.model.type = "TextualInversion" /\ file.type = "Negative")
        => IF Len(modelVersion.trainedWords) > 0
           THEN fileName = modelVersion.trainedWords[1] \o "-neg." \o splitPop(file.name)
           ELSE fileName = file.name

\* C6 as amended: for a TextualInversion model whose sanitized name is not
\* empty, a Negative file is named '<first trained word>-neg.<ext>' when the
\* first trained word is a non-empty string (ext: what follows the last '.' of
\* the file's name); it keeps its name when the version has no trained word,
\* when the first trained word is the empty string, and when the sanitized
\* model name is empty.
C6_NegativeNaming ==
    (Returned /\ modelVersion.model.type = "TextualInversion" /\ file.type = "Negative")
        => IF /\ filenamize(modelVersion.model.name) # ""
              /\ Len(modelVersion.trainedWords) > 0
              /\ modelVersion.trainedWords[1] # ""
           THEN fileName = modelVersion.trainedWords[1] \o "-neg." \o splitPop(file.name)
           ELSE fileName = file.name

C6_Witness ==
    /\ Returned
    /\ modelVersion.model.type = "TextualInversion"
    /\ file.type = "Negative"
    /\ file.name = "e.instruct-pix2pix.pt"
    /\ modelVersion.trainedWords = <<"foo">>
    /\ fileName = "foo-neg.pt"

\* C7 as stated: model name 'My Model', version name 'My Model v2' and file
\* name 'weights.safetensors' give 'My_Model_v2.safetensors' for a file that
\* is not LoRA/LoCon, TextualInversion, VAE or Training Data: the model name
\* prefix is stripped from the version name and appears once.
C7_VersionPrefixStripped ==
    (/\ Returned
     /\ modelVersion.model.name = "My Model"
     /\ modelVersion.name = "My Model v2"
     /\ file.name = "weights.safetensors"
     /\ modelVersion.model.type \notin {"LORA", "LoCon", "TextualInversion"}
     /\ file.type \in {"Model", "Pruned Model"})
        => fileName = "My_Model_v2.safetensors"

\* C14 as stated: a file whose type is VAE keeps its original name for every
\* model type, model name, version name and list of trained words.
C14_VaeAlwaysKeepsName ==
    (Returned /\ file.type = "VAE") => fileName = file.name

\* C14: a file whose type is VAE keeps its original name for every model name
\* and version name, unless the model is a TextualInversion with a non-empty
\* first trained word; for such a model the file is named after that trained
\* word, '<trained word>.<extension>', or keeps its name.
C14_VaeKeepsName ==
    (Returned /\ file.type = "VAE") =>
        IF /\ modelVersion.model.type = "TextualInversion"
           /\ Len(modelVersion.trainedWords) > 0
           /\ modelVersion.trainedWords[1] # ""
        THEN fileName \in {file.name,
                           modelVersion.trainedWords[1] \o "." \o splitPop(file.name)}
        ELSE fileName = file.name

\* a VAE file of a Checkpoint with a usable model name keeps its name where a
\* Model file would be renamed
C14_Witness ==
    /\ Returned
    /\ file.type = "VAE"
    /\ modelVersion.model.type = "Checkpoint"
    /\ modelVersion.trainedWords = <<"foo">>
    /\ fileName = file.name
    /\ getDownloadFilename(modelVersion.model, modelVersion,
                           [file EXCEPT !.type = "Model"]) # file.name

\* the VAE file of a TextualInversion is renamed after the trained word
C14_VaeRenamedReached ==
    /\ Returned
    /\ file.type = "VAE"
    /\ modelVersion.model.type = "TextualInversion"
    /\ modelVersion.trainedWords = <<"foo">>
    /\ fileName = "foo." \o splitPop(file.name)
    /\ fileName # file.name

(***************************************************************************)
(* addPostTag                                                              *)
(*   src/src/components/ImageGeneration/GenerationForm/BaseModelProvider.tsx *)
(* Each call normalizes the name, looks the tag up by name and then either *)
(* creates the tag with its link to the post or updates the tag it found.  *)
(* The lookup and the write are two awaited calls, so the calls of         *)
(* concurrent requests interleave between them.                            *)
(***************************************************************************)
MaxCalls == 2
MaxPosts == 2

CallIds == 1..MaxCalls
Posts   == 1..MaxPosts

\* names as the clients send them
RawNames == {"Cat", " cat", "dog"}

\* const name = initialName.toLowerCase().trim()
normalize(initialName) == trim(toLowerCase(initialName))

\* the rows a tag table may hold before the calls: none, or the tag 'cat'
\* made for models or for posts
ExistingTags ==
    {{}} \cup {{[id |-> 1, name |-> "cat", target |-> t]} : t \in {<<"Model">>, <<"Post">>}}

\* the downloading handler takes no part in the calls
HandlerUnused ==
    /\ pc = "unused"
    /\ env = Null
    /\ req = Null
    /\ session = Null
    /\ queryResults = Null
    /\ modelVersion = Null
    /\ file = Null
    /\ fileName = ""
    /\ userActivity = <<>>
    /\ events = <<>>
    /\ urlRequests = <<>>
    /\ res = NoRes

handlerVars == <<pc, env, req, session, queryResults, modelVersion, file, fileName,
                 userActivity, events, urlRequests, res>>

TagInit ==
    /\ HandlerUnused
    /\ tags \in ExistingTags
    /\ tagsOnPosts \in (IF tags = {} THEN {{}}
                        ELSE SUBSET {[tagId |-> 1, postId |-> 1]})
    /\ calls \in [CallIds -> [postId : Posts, name : RawNames,
                              pc : {"findUnique"}, tag : {Null}]]
    /\ inView = FALSE
    /\ fetchStatus = "idle"
    /\ hasNextPage = FALSE
    /\ debounceTimer = FALSE
    /\ fetches = <<>>

\* tx.tag.findUnique({ where: { name } })
findUnique(name) ==
    IF \E t \in tags : t.name = name
    THEN CHOOSE t \in tags : t.name = name
    ELSE Null

\* tag.target.includes(TagTarget.Post)
targetIncludesPost(t) == \E i \in 1..Len(t.target) : t.target[i] = "Post"

\* the lookup of call c
FindUnique(c) ==
    /\ calls[c].pc = "findUnique"
    /\ calls' = [calls EXCEPT ![c].tag = findUnique(normalize(calls[c].name)),
                              ![c].pc = "write"]
    /\ UNCHANGED <<tags, tagsOnPosts, scrollVars, handlerVars>>

\* dbWrite.tag.create with the nested tagsOnPosts create, when the lookup found
\* nothing; the name is a unique key of the tag table (it is what findUnique
\* looks up by), so the create of a name that exists by now is refused and
\* the call throws
CreateTag(c) ==
    /\ calls[c].pc = "write"
    /\ calls[c].tag = Null
    /\ LET name == normalize(calls[c].name)
           id   == Cardinality(tags) + 1
       IN  IF \E t \in tags : t.name = name
           THEN /\ calls' = [calls EXCEPT ![c].pc = "failed"]
                /\ UNCHANGED <<tags, tagsOnPosts>>
           ELSE /\ tags' = tags \cup {[id |-> id, name |-> name, target |-> <<"Post">>]}
                /\ tagsOnPosts' = tagsOnPosts \cup {[tagId |-> id, postId |-> calls[c].postId]}
                /\ calls' = [calls EXCEPT ![c].pc = "done"]
    /\ UNCHANGED <<scrollVars, handlerVars>>

\* dbWrite.tag.update of the tag the lookup found: the target gains Post when
\* the looked-up row lacked it, and the link is connected or created
UpdateTag(c) ==
    /\ calls[c].pc = "write"
    /\ calls[c].tag # Null
    /\ LET tag == calls[c].tag
       IN  /\ tags' = {IF t.id = tag.id /\ ~targetIncludesPost(tag)
                       THEN [t EXCEPT !.target = Append(t.target, "Post")]
                       ELSE t : t \in tags}
           /\ tagsOnPosts' = tagsOnPosts \cup {[tagId |-> tag.id, postId |-> calls[c].postId]}
    /\ calls' = [calls EXCEPT ![c].pc = "done"]
    /\ UNCHANGED <<scrollVars, handlerVars>>

TagNext ==
    \E c \in CallIds :
        \/ FindUnique(c)
        \/ CreateTag(c)
        \/ UpdateTag(c)

TagSpec == TagInit /\ [][TagNext]_vars

AllCallsEnded == \A c \in CallIds : calls[c].pc \in {"done", "failed"}

\* C17: for any interleaving of concurrent addPostTag calls with the same
\* normalized name, every call completes without error, and afterwards
\* exactly one tag has that name and it is linked to the post of each call.
C17_ConcurrentCallsSucceed ==
    (calls # <<>> /\ AllCallsEnded) =>
        \A c \in CallIds :
            /\ calls[c].pc = "done"
            /\ Cardinality({t \in tags : t.name = trim(toLowerCase(calls[c].name))}) = 1
            /\ \E t \in tags :
                   /\ t.name = trim(toLowerCase(calls[c].name))
                   /\ [tagId |-> t.id, postId |-> calls[c].postId] \in tagsOnPosts

\* two calls with the same normalized name both looked up before either wrote
C17_LostCallReached ==
    /\ calls # <<>>
    /\ AllCallsEnded
    /\ calls[1].name = "Cat"
    /\ calls[2].name = " cat"
    /\ calls[1].pc = "done"
    /\ calls[2].pc = "failed"
    /\ calls[2].postId # calls[1].postId
    /\ \A l \in tagsOnPosts : l.postId # calls[2].postId

\* calls that do not overlap both succeed
C17_SequentialCallsReached ==
    /\ calls # <<>>
    /\ AllCallsEnded
    /\ calls[1].name = "Cat"
    /\ calls[2].name = " cat"
    /\ calls[1].pc = "done"
    /\ calls[2].pc = "done"
    /\ Cardinality(tags) = 1
    /\ Cardinality(tagsOnPosts) = 2

(***************************************************************************)
(* ImagesInfinite                                                          *)
(*   src/src/components/Image/Infinite/ImagesInfinite.tsx                  *)
(* The sentinel under the image grid reports inView; an effect that runs   *)
(* when inView or isFetching changes calls the debounced fetchNextPage,    *)
(* and the debounce invokes fetchNextPage when its delay has passed.  The  *)
(* query and the viewport change on their own in between.                  *)
(***************************************************************************)
MaxFetches == 2

isLoading    == fetchStatus = "loading"
isFetching   == fetchStatus # "idle"
isRefetching == fetchStatus = "refetching"

\* {hasNextPage && !isLoading && !isRefetching && <Center ref={ref} ...>}
sentinelRendered == hasNextPage /\ ~isLoading /\ ~isRefetching

\* the component mounts while the first page loads
ScrollInit ==
    /\ HandlerUnused
    /\ tags = {}
    /\ tagsOnPosts = {}
    /\ calls = <<>>
    /\ inView = FALSE
    /\ fetchStatus = "loading"
    /\ hasNextPage = FALSE
    /\ debounceTimer = FALSE
    /\ fetches = <<>>

\* the effect, run with the values of the render it follows: the debounced
\* function is called, which starts (or restarts) its timer
effect(view, fetching, timer) == IF view /\ ~fetching THEN TRUE ELSE timer

\* the sentinel enters or leaves the viewport
Intersect ==
    /\ sentinelRendered
    /\ inView' = ~inView
    /\ debounceTimer' = effect(inView', isFetching, debounceTimer)
    /\ UNCHANGED <<fetchStatus, hasNextPage, fetches, tagVars, handlerVars>>

\* the query refetches (the debounced filters changed, or the data went
\* stale); the sentinel is not rendered during a refetch
Refetch ==
    /\ fetchStatus = "idle"
    /\ fetchStatus' = "refetching"
    /\ inView' = FALSE
    /\ debounceTimer' = effect(FALSE, TRUE, debounceTimer)
    /\ UNCHANGED <<hasNextPage, fetches, tagVars, handlerVars>>

\* the fetch in flight settles
Settle ==
    /\ fetchStatus # "idle"
    /\ fetchStatus' = "idle"
    /\ \E more \in BOOLEAN :
           /\ hasNextPage' = more
           /\ inView' = (inView /\ sentinelRendered /\ more)
    /\ debounceTimer' = effect(inView', FALSE, debounceTimer)
    /\ UNCHANGED <<fetches, tagVars, handlerVars>>

\* the debounce delay has passed: fetchNextPage is invoked, whatever inView
\* and isFetching are by now
DebounceFires ==
    /\ debounceTimer
    /\ Len(fetches) < MaxFetches
    /\ debounceTimer' = FALSE
    /\ fetches' = Append(fetches, [inView |-> inView, isFetching |-> isFetching])
    /\ fetchStatus' = IF fetchStatus = "idle" THEN "fetchingNext" ELSE fetchStatus
    /\ UNCHANGED <<inView, hasNextPage, tagVars, handlerVars>>

ScrollNext ==
    \/ Intersect
    \/ Refetch
    \/ Settle
    \/ DebounceFires

ScrollSpec == ScrollInit /\ [][ScrollNext]_vars

\* C18: fetchNextPage is invoked only while the sentinel is in view and no
\* fetch is in flight: at every invocation inView held and isFetching did
\* not.
C18_FetchOnlyInViewAndIdle ==
    \A i \in 1..Len(fetches) : fetches[i].inView /\ ~fetches[i].isFetching

\* fetchNextPage invoked after the sentinel left the view
C18_FetchOutOfViewReached ==
    \E i \in 1..Len(fetches) : ~fetches[i].inView /\ ~fetches[i].isFetching

\* fetchNextPage invoked while a fetch is in flight
C18_FetchWhileFetchingReached ==
    \E i \in 1..Len(fetches) : fetches[i].isFetching

\* fetchNextPage invoked as intended
C18_FetchInViewReached ==
    \E i \in 1..Len(fetches) : fetches[i].inView /\ ~fetches[i].isFetching

====
